---------------------------- MODULE Spec2Model ----------------------------
(***************************************************************************)
(* Model of src/src/hash.c: the Ppx_* hash-mixing primitives (fold a typed *)
(* value into a 32-bit accumulator carried in an OCaml tagged integer,     *)
(* finalize, and the single-call wrappers).                                *)
(*                                                                         *)
(* Platform modelled: 64-bit (ARCH_SIXTYFOUR), intnat = 64 bits, int = 32  *)
(* bits.  The block mixer exists in both of its builds: the default        *)
(* little-endian word read and the ARCH_BIG_ENDIAN byte reassembly.        *)
(*                                                                         *)
(* Number representation.  TLC integers are 32-bit signed, so              *)
(*   - a uint32_t is a pair <<lo, hi>> of 16-bit limbs (value lo+2^16*hi); *)
(*   - a 64-bit word (intnat, int64_t, a `value`, the bits of a double) is *)
(*     a 4-tuple of 16-bit limbs, least significant first;                 *)
(*   - a C `int` / int32_t is a TLC integer in -2^31 .. 2^31-1;            *)
(*   - a byte (uint8_t) is a TLC integer in 0 .. 255.                      *)
(***************************************************************************)
EXTENDS Integers, Sequences, FiniteSets

W8  == 2^8
W15 == 2^15
W16 == 2^16

(***************************************************************************)
(* 16-bit limb operations                                                  *)
(***************************************************************************)
\* bit k of a & b, at its weight
AndBit(a, b, k) == (((a \div 2^k) % 2) * ((b \div 2^k) % 2)) * 2^k

And16(a, b) ==
  (((AndBit(a, b, 0) + AndBit(a, b, 1)) + (AndBit(a, b, 2) + AndBit(a, b, 3)))
   + ((AndBit(a, b, 4) + AndBit(a, b, 5)) + (AndBit(a, b, 6) + AndBit(a, b, 7))))
  + (((AndBit(a, b, 8) + AndBit(a, b, 9)) + (AndBit(a, b, 10) + AndBit(a, b, 11)))
     + ((AndBit(a, b, 12) + AndBit(a, b, 13)) + (AndBit(a, b, 14) + AndBit(a, b, 15))))

\* a | b = a + b - (a & b);  a ^ b = a + b - 2 (a & b)
Or16(a, b) == a + b - And16(a, b)

Xor16(a, b) == a + b - 2 * And16(a, b)

\* low and high 16 bits of the 32-bit product of two 16-bit limbs
MulLo16(a, b) == ((a % W8) * b + (((a \div W8) * b) % W8) * W8) % W16
MulHi16(a, b) == ((a \div W8) * b + ((a % W8) * b) \div W8) \div W8

(***************************************************************************)
(* uint32_t arithmetic (wrapping), on <<lo, hi>>                           *)
(***************************************************************************)
\* the C types of the operands: 16-bit limbs, uint32_t, and 64-bit words
U16 == 0..(W16 - 1)
U32 == U16 \X U16
Word64 == U16 \X U16 \X U16 \X U16

Xor32(x, y) == <<Xor16(x[1], y[1]), Xor16(x[2], y[2])>>
Or32(x, y)  == <<Or16(x[1], y[1]), Or16(x[2], y[2])>>
And32(x, y) == <<And16(x[1], y[1]), And16(x[2], y[2])>>

Add32(x, y) ==
  <<(x[1] + y[1]) % W16, (x[2] + y[2] + ((x[1] + y[1]) \div W16)) % W16>>

Mul32(x, y) ==
  <<MulLo16(x[1], y[1]),
    (MulHi16(x[1], y[1]) + MulLo16(x[1], y[2]) + MulLo16(x[2], y[1])) % W16>>

\* x << n and x >> n on uint32_t, 0 < n < 32
Shl32(x, n) ==
  IF n < 16
    THEN <<(x[1] * 2^n) % W16, (x[2] * 2^n + (x[1] * 2^n) \div W16) % W16>>
    ELSE <<0, (x[1] * 2^(n - 16)) % W16>>

Shr32(x, n) ==
  IF n < 16
    THEN <<(x[1] \div 2^n) + (x[2] % 2^n) * 2^(16 - n), x[2] \div 2^n>>
    ELSE <<x[2] \div 2^(n - 16), 0>>

\* #define ROTL32(x,n) ((x) << n | (x) >> (32-n))
ROTL32(x, n) == Or32(Shl32(x, n), Shr32(x, 32 - n))

(***************************************************************************)
(* C conversions                                                           *)
(***************************************************************************)
\* int / int32_t -> uint32_t (value modulo 2^32)
IntToU32(i) == <<i % W16, (i \div W16) % W16>>

\* intnat -> uint32_t (keeps the low 32 bits)
Trunc32(x) == <<x[1], x[2]>>

\* intnat -> int (keeps the low 32 bits, two's complement)
Trunc32s(x) ==
  IF x[2] >= W15 THEN (x[2] - W16) * W16 + x[1] ELSE x[2] * W16 + x[1]

\* uint32_t -> intnat (zero extension)
ZExt64(u) == CASE u \in U32 -> <<u[1], u[2], 0, 0>>

\* small non-negative integer (< 2^31) -> uint32_t
NatToU32(n) == <<n % W16, n \div W16>>

(***************************************************************************)
(* OCaml tagged integers (caml/mlvalues.h), 64-bit `value`                 *)
(***************************************************************************)
\* #define Val_long(x) ((intnat) (((uintnat)(x) << 1)) + 1)
Val_long(x) ==
  CASE x \in Word64 ->
    <<(2 * x[1] + 1) % W16,
      (2 * x[2] + x[1] \div W15) % W16,
      (2 * x[3] + x[2] \div W15) % W16,
      (2 * x[4] + x[3] \div W15) % W16>>

\* #define Long_val(x) ((x) >> 1)   (arithmetic shift of an intnat)
Long_val(v) ==
  CASE v \in Word64 ->
    <<v[1] \div 2 + (v[2] % 2) * W15,
      v[2] \div 2 + (v[3] % 2) * W15,
      v[3] \div 2 + (v[4] % 2) * W15,
      v[4] \div 2 + (v[4] \div W15) * W15>>

\* #define Val_int(x) Val_long(x), applied to a uint32_t
Val_int(u) == Val_long(ZExt64(u))

\* a conversion to int that saturates instead of keeping the low 32 bits
Int_val_Saturating(v) ==
  LET x == Long_val(v)
  IN  IF x[4] >= W15 THEN (IF x[3] = W16 - 1 /\ x[4] = W16 - 1 /\ x[2] >= W15
                             THEN Trunc32s(x) ELSE -2147483647 - 1)
      ELSE IF x[3] = 0 /\ x[4] = 0 /\ x[2] < W15 THEN Trunc32s(x)
      ELSE 2147483647

\* #define Int_val(x) ((int) Long_val(x))
Int_val(v) == Trunc32s(Long_val(v))

(***************************************************************************)
(* Mixing constants                                                        *)
(***************************************************************************)
MixC1   == <<\H2d51, \Hcc9e>>   \* 0xcc9e2d51
MixC2   == <<\H3593, \H1b87>>   \* 0x1b873593
MixAdd  == <<\H6b64, \He654>>   \* 0xe6546b64
MixFive == <<5, 0>>
FinC1   == <<\Hca6b, \H85eb>>   \* 0x85ebca6b
FinC2   == <<\Hae35, \Hc2b2>>   \* 0xc2b2ae35
Mask30  == <<\Hffff, \H3fff>>   \* 0x3FFFFFFFU

\* MIX without its last two lines (h = ROTL32(h, 13); h = h * 5 + 0xe6546b64)
MIX_XorOnly(h, d) ==
  Xor32(h, Mul32(ROTL32(Mul32(d, MixC1), 15), MixC2))

\* #define MIX(h,d): the value of h after the macro
MIX(h, d) ==
  LET d1 == Mul32(d, MixC1)
      d2 == ROTL32(d1, 15)
      d3 == Mul32(d2, MixC2)
      h1 == Xor32(h, d3)
      h2 == ROTL32(h1, 13)
  IN  CASE h \in U32 /\ d \in U32 /\ d1 \in U32 /\ d2 \in U32 /\ d3 \in U32
             /\ h1 \in U32 /\ h2 \in U32 ->
        Add32(Mul32(h2, MixFive), MixAdd)

\* #define FINAL_MIX(h): the value of h after the macro
FINAL_MIX(h) ==
  LET h1 == Xor32(h, Shr32(h, 16))
      h2 == Mul32(h1, FinC1)
      h3 == Xor32(h2, Shr32(h2, 13))
      h4 == Mul32(h3, FinC2)
  IN  CASE h \in U32 /\ h1 \in U32 /\ h2 \in U32 /\ h3 \in U32 /\ h4 \in U32 ->
        Xor32(h4, Shr32(h4, 16))


(***************************************************************************)
(* OCaml runtime hash functions (caml/hash.h, included at hash.c:17).      *)
(* Their bodies are not part of this repository; they are modelled as the  *)
(* specification describes the folds that call them: one block-mixer step  *)
(* for a 32-bit word, and for a 64-bit value two little-endian 32-bit      *)
(* words mixed in sequence, low word first.                                *)
(***************************************************************************)
\* caml_hash_mix_uint32(h, d): one MIX step
caml_hash_mix_uint32(h, d) == MIX(h, d)

\* caml_hash_mix_intnat(h, d) on a 64-bit platform: the two 32-bit words of
\* d, low word first
caml_hash_mix_intnat(h, d) == MIX(MIX(h, <<d[1], d[2]>>), <<d[3], d[4]>>)

\* caml_hash_mix_int64(h, d): the two 32-bit words of d, low word first
caml_hash_mix_int64(h, d) == MIX(MIX(h, <<d[1], d[2]>>), <<d[3], d[4]>>)

\* caml_hash_mix_double(hash, d): the two 32-bit words of the double's
\* IEEE-754 bit pattern, low word first
caml_hash_mix_double(hash, d) == MIX(MIX(hash, <<d[1], d[2]>>), <<d[3], d[4]>>)

(***************************************************************************)
(* Ppx_fold_blob, with an execution log.  s is the buffer, a sequence of   *)
(* bytes; C index i is s[i + 1].  The function trusts len: with len beyond *)
(* the buffer it reads out of bounds.  past is what the address space      *)
(* holds directly after the buffer, any bytes at all; an index beyond      *)
(* both has no value (the read faults).  Ppx_fold_string, the caller in    *)
(* this file, passes the length of the buffer and reads nothing of past.   *)
(* The run returns the final h together with what it did: the              *)
(* number of MIX steps, the indices read (in order), the words mixed and   *)
(* the number of times the length was xor-ed in.                           *)
(***************************************************************************)
\* s[i]: a byte of the buffer, or of the memory after it when i is out of bounds
ByteAt(s, past, i) == IF i < Len(s) THEN s[i + 1] ELSE past[i - Len(s) + 1]

\* #else branch: w = *((uint32_t *) &(s[i])) on a little-endian host
WordLE(s, past, i) ==
  <<ByteAt(s, past, i) + W8 * ByteAt(s, past, i + 1), ByteAt(s, past, i + 2) + W8 * ByteAt(s, past, i + 3)>>

\* s[i+3] << 24 in type int: the byte is promoted to int and shifted; for a
\* byte >= 0x80 the result is the wrapped (negative) two's complement int
ShlInt24(b) == IF b >= 128 THEN (b - W8) * 2^24 ELSE b * 2^24

\* the block reassembled most significant byte first
WordBE_Reversed(s, past, i) ==
  Or32(Or32(Or32(IntToU32(ByteAt(s, past, i + 3)),
                 IntToU32(ByteAt(s, past, i + 2) * 2^8)),
            IntToU32(ByteAt(s, past, i + 1) * 2^16)),
       IntToU32(ShlInt24(ByteAt(s, past, i))))

\* #ifdef ARCH_BIG_ENDIAN branch:
\*   w = s[i] | (s[i+1] << 8) | (s[i+2] << 16) | (s[i+3] << 24)
WordBE(s, past, i) ==
  Or32(Or32(Or32(IntToU32(ByteAt(s, past, i)),
                 IntToU32(ByteAt(s, past, i + 1) * 2^8)),
            IntToU32(ByteAt(s, past, i + 2) * 2^16)),
       IntToU32(ShlInt24(ByteAt(s, past, i + 3))))

BlockWord(s, past, i, bigEndian) ==
  IF bigEndian THEN WordBE(s, past, i) ELSE WordLE(s, past, i)

\* the block loop with the test i + 4 < len
RECURSIVE BlockLoop_Strict(_, _, _, _, _, _)
BlockLoop_Strict(r, i, len, s, past, bigEndian) ==
  IF i + 4 < len
    THEN LET w == IF bigEndian THEN WordBE(s, past, i) ELSE WordLE(s, past, i)
         IN  BlockLoop_Strict([h |-> MIX(r.h, w), i |-> i + 4,
                               mixes |-> r.mixes + 1,
                               reads |-> r.reads \o <<i, i + 1, i + 2, i + 3>>,
                               words |-> Append(r.words, w)],
                              i + 4, len, s, past, bigEndian)
    ELSE r

\* for (i = 0; i + 4 <= len; i += 4) { w = ...; MIX(h, w); }
RECURSIVE BlockLoop(_, _, _, _, _, _)
BlockLoop(r, i, len, s, past, bigEndian) ==
  IF r.h \in U32 /\ i + 4 <= len
    THEN LET w == BlockWord(s, past, i, bigEndian)
         IN  BlockLoop([h |-> MIX(r.h, w), i |-> i + 4,
                        mixes |-> r.mixes + 1,
                        reads |-> r.reads \o <<i, i + 1, i + 2, i + 3>>,
                        words |-> Append(r.words, w)],
                       i + 4, len, s, past, bigEndian)
    ELSE r

\* the tail with MIX(h, w) moved after the switch: it runs for len & 3 == 0 too
TailStep_Always(r, len, s, past) ==
  LET i  == r.i
      k  == len % 4
      w3 == IF k = 3 THEN IntToU32(ByteAt(s, past, i + 2) * 2^16) ELSE <<0, 0>>
      w2 == IF k >= 2 THEN Or32(w3, IntToU32(ByteAt(s, past, i + 1) * 2^8)) ELSE w3
      w1 == IF k >= 1 THEN Or32(w2, IntToU32(ByteAt(s, past, i))) ELSE w2
      rd == (IF k = 3 THEN <<i + 2>> ELSE <<>>) \o
            (IF k >= 2 THEN <<i + 1>> ELSE <<>>) \o
            (IF k >= 1 THEN <<i>> ELSE <<>>)
  IN  [r EXCEPT !.h = MIX(r.h, w1), !.mixes = r.mixes + 1,
                !.reads = r.reads \o rd, !.words = Append(r.words, w1)]

\* w = 0; switch (len & 3) { case 3: ... case 2: ... case 1: ...; MIX(h, w); default: }
TailStep(r, len, s, past) ==
  LET i  == r.i
      k  == len % 4
      w3 == IF k = 3 THEN IntToU32(ByteAt(s, past, i + 2) * 2^16) ELSE <<0, 0>>
      w2 == IF k >= 2 THEN Or32(w3, IntToU32(ByteAt(s, past, i + 1) * 2^8)) ELSE w3
      w1 == Or32(w2, IntToU32(ByteAt(s, past, i)))
      rd == (IF k = 3 THEN <<i + 2>> ELSE <<>>) \o
            (IF k >= 2 THEN <<i + 1>> ELSE <<>>) \o <<i>>
  IN  IF r.h \in U32 /\ k = 0 THEN r
      ELSE [r EXCEPT !.h = MIX(r.h, w1), !.mixes = r.mixes + 1,
                     !.reads = r.reads \o rd, !.words = Append(r.words, w1)]

\* the length put through a mixing step instead of a plain xor
LenXor_Mixed(r, len) ==
  [h |-> MIX(r.h, NatToU32(len)), mixes |-> r.mixes, reads |-> r.reads,
   words |-> r.words, lenXors |-> 1]

\* h ^= (uint32_t) len
LenXor(r, len) ==
  CASE r.h \in U32 ->
    [h |-> Xor32(r.h, NatToU32(len)), mixes |-> r.mixes, reads |-> r.reads,
     words |-> r.words, lenXors |-> 1]

BlobRun(h, len, s, past, bigEndian) ==
  LET r0 == [h |-> h, i |-> 0, mixes |-> 0, reads |-> <<>>, words |-> <<>>]
  IN  LenXor(TailStep(BlockLoop(r0, 0, len, s, past, bigEndian), len, s, past),
             len)

\* the build for a little-endian host (no ARCH_BIG_ENDIAN)
Ppx_fold_blob(h, len, s, past) == BlobRun(h, len, s, past, FALSE).h

\* the build with ARCH_BIG_ENDIAN defined
Ppx_fold_blob_BE(h, len, s, past) == BlobRun(h, len, s, past, TRUE).h

\* caml_hash_mix_string(h, s): the runtime function Ppx_fold_blob is a copy of
\* (hash.c:74), applied to the bytes and the length of an OCaml string
caml_hash_mix_string(h, s) ==
  LET r0 == [h |-> h, i |-> 0, mixes |-> 0, reads |-> <<>>, words |-> <<>>]
  IN  LenXor(TailStep(BlockLoop(r0, 0, Len(s), s, <<>>, FALSE), Len(s), s, <<>>),
             Len(s)).h

(***************************************************************************)
(* The primitives.  st is a `value` (tagged integer); the other argument   *)
(* is the unboxed content: Int32_val(i) an int32_t, Nativeint_val(i) and   *)
(* Int64_val(i) 64-bit words, Double_val(i) the double's bit pattern.      *)
(***************************************************************************)
\* Passing Long_val(st) (an intnat) for a uint32_t parameter keeps its low 32 bits
StateArg(st) == Trunc32(Long_val(st))

\* the state passed without Long_val
Ppx_fold_int32_Tagged(st, i) ==
  Val_long(ZExt64(caml_hash_mix_uint32(Trunc32(st), IntToU32(i))))

Ppx_fold_int32(st, i) ==
  CASE st \in Word64 ->
    Val_long(ZExt64(caml_hash_mix_uint32(StateArg(st), IntToU32(i))))

Ppx_fold_nativeint(st, i) ==
  CASE st \in Word64 ->
    Val_long(ZExt64(caml_hash_mix_intnat(StateArg(st), i)))

Ppx_fold_int64(st, i) ==
  CASE st \in Word64 ->
    Val_long(ZExt64(caml_hash_mix_int64(StateArg(st), i)))

\* the integer passed without Long_val
Ppx_fold_int_Tagged(st, i) ==
  Val_long(ZExt64(caml_hash_mix_intnat(StateArg(st), i)))

\* i is a tagged integer here: Long_val(i)
Ppx_fold_int(st, i) ==
  CASE st \in Word64 ->
    Val_long(ZExt64(caml_hash_mix_intnat(StateArg(st), Long_val(i))))

Ppx_fold_float(st, i) ==
  CASE st \in Word64 ->
    Val_long(ZExt64(caml_hash_mix_double(StateArg(st), i)))

\* the state read through a saturating conversion to int
Ppx_get_hash_value_Saturating(st) ==
  Val_int(And32(FINAL_MIX(IntToU32(Int_val_Saturating(st))), Mask30))

\* the mask one bit too wide (0x7FFFFFFF)
Ppx_get_hash_value_Mask31(st) ==
  Val_int(And32(FINAL_MIX(IntToU32(Int_val(st))), <<\Hffff, \H7fff>>))

\* uint32_t h = Int_val(st); FINAL_MIX(h); return Val_int(h & 0x3FFFFFFFU)
Ppx_get_hash_value(st) ==
  CASE st \in Word64 ->
    Val_int(And32(FINAL_MIX(IntToU32(Int_val(st))), Mask30))

\* the length xor-ed a second time after the block mixer returns
Ppx_fold_string_LenTwice(st, v_str) ==
  Val_long(ZExt64(Xor32(Ppx_fold_blob(StateArg(st), Len(v_str), v_str, <<>>),
                        NatToU32(Len(v_str)))))

Ppx_fold_string(st, v_str) ==
  CASE st \in Word64 ->
    Val_long(ZExt64(Ppx_fold_blob(StateArg(st), Len(v_str), v_str, <<>>)))

\* #define FINAL_MIX_AND_RETURN(h)
FINAL_MIX_AND_RETURN(h) ==
  LET h1 == Xor32(h, Shr32(h, 16))
      h2 == Mul32(h1, FinC1)
      h3 == Xor32(h2, Shr32(h2, 13))
      h4 == Mul32(h3, FinC2)
      h5 == Xor32(h4, Shr32(h4, 16))
  IN  CASE h \in U32 /\ h1 \in U32 /\ h2 \in U32 /\ h3 \in U32 /\ h4 \in U32
             /\ h5 \in U32 ->
        Val_int(And32(h5, Mask30))

Ppx_hash_string(string) == FINAL_MIX_AND_RETURN(caml_hash_mix_string(<<0, 0>>, string))

Ppx_hash_double(d) == FINAL_MIX_AND_RETURN(caml_hash_mix_double(<<0, 0>>, d))


(***************************************************************************)
(* Bounds and input sets                                                   *)
(***************************************************************************)
\* most folds in one chain of calls
MaxFolds == 2
\* longest byte sequence enumerated exhaustively over ByteVals
MaxLen == 5

ByteVals == {0, \H80, \Hff}

ByteSeqs(n) == UNION {[1..k -> ByteVals] : k \in 0..n}

\* longer buffers: two complete blocks, with and without a tail
LongStrs ==
  { <<\H61, \H80, \Hff, \H00, \H7f, \H01, \Hfe>>,
    <<\H61, \H80, \Hff, \H00, \H7f, \H01, \Hfe, \H90>>,
    <<\H61, \H80, \Hff, \H00, \H7f, \H01, \Hfe, \H90, \H33>> }

AllStrs == ByteSeqs(MaxLen) \cup LongStrs

\* byte sequences folded inside a chain
ChainStrs == { <<>>, <<\H61>>, <<\H80, \Hff>>, <<0, 0, 0, \H80>>,
               <<\H61, \H80, \Hff, \H00, \H7f>> }

IntMin == -2147483647 - 1
IntMax == -(IntMin + 1)

\* int32_t values
Int32Vals == {0, 1, 42, -1, IntMin, IntMax}

\* 64-bit words: 0, 42, -1, -2, 2^32, 2^31 - 1, -2^31, 0x0123456789abcdef,
\* -2^62, 2^62 - 1  (all fit the 63 bits of an OCaml int)
Int64Vals ==
  { <<0, 0, 0, 0>>, <<42, 0, 0, 0>>,
    <<\Hffff, \Hffff, \Hffff, \Hffff>>, <<\Hfffe, \Hffff, \Hffff, \Hffff>>,
    <<0, 0, 1, 0>>, <<\Hffff, \H7fff, 0, 0>>, <<0, \H8000, \Hffff, \Hffff>>,
    <<\Hcdef, \H89ab, \H4567, \H0123>>,
    <<0, 0, 0, \Hc000>>, <<\Hffff, \Hffff, \Hffff, \H3fff>> }

\* doubles, by bit pattern: +0.0, -0.0, 1.0, pi, +inf, three NaNs
DoubleVals ==
  { <<0, 0, 0, 0>>, <<0, 0, 0, \H8000>>, <<0, 0, 0, \H3ff0>>,
    <<\H2d18, \H5444, \H21fb, \H4009>>, <<0, 0, 0, \H7ff0>>,
    <<0, 0, 0, \H7ff8>>, <<1, 0, 0, \Hfff0>>, <<0, 0, 1, \H7ff0>> }

\* smaller sets for the folds of a chain
ChainInt32 == {1, 42, IntMin}
ChainInt64 == { <<42, 0, 0, 0>>, <<\Hffff, \Hffff, \Hffff, \Hffff>>,
                <<\Hcdef, \H89ab, \H4567, \H0123>> }
ChainDouble == { <<0, 0, 0, \H3ff0>>, <<0, 0, 0, \H8000>>, <<0, 0, 0, \H7ff8>> }

\* accumulators a caller may hand to a single call: 0, 1, 2^31 - 1, 2^31,
\* 2^32 - 1, 0xdeadbeef, and two OCaml ints outside [0, 2^32 - 1]
\* (2^32 + 0xdeadbeef and -1) whose low 32 bits equal one of the former
SeedLongs ==
  { <<0, 0, 0, 0>>, <<1, 0, 0, 0>>, <<\Hffff, \H7fff, 0, 0>>,
    <<0, \H8000, 0, 0>>, <<\Hffff, \Hffff, 0, 0>>, <<\Hbeef, \Hdead, 0, 0>>,
    <<\Hbeef, \Hdead, 1, 0>>, <<\Hffff, \Hffff, \Hffff, \Hffff>> }

Seeds == {Val_long(x) : x \in SeedLongs}

Zero32 == <<0, 0>>
ZeroState == Val_int(Zero32)

(***************************************************************************)
(* State: one caller threading an accumulator through the primitives.      *)
(***************************************************************************)
VARIABLES
  st,      \* the accumulator the caller holds (a `value`)
  op,      \* the primitive called last ("init" before any call)
  acc,     \* the accumulator argument of the last call
  arg,     \* the other argument of the last call
  ret,     \* what the last call returned
  nfolds,  \* fold calls made so far
  done,    \* an output hash has been produced; the accumulator is consumed
  hist,    \* the arguments folded so far, as <<op, arg>> pairs
  log      \* execution log of the block mixer run by the last call

vars == <<st, op, acc, arg, ret, nfolds, done, hist, log>>

NoLog == [mixes |-> 0, reads |-> <<>>, words |-> <<>>, lenXors |-> 0]

LogOf(r) == [mixes |-> r.mixes, reads |-> r.reads, words |-> r.words,
             lenXors |-> r.lenXors]

InitWith(s) ==
  /\ st = s
  /\ op = "init"
  /\ acc = s
  /\ arg = <<>>
  /\ ret = <<>>
  /\ nfolds = 0
  /\ done = FALSE
  /\ hist = <<>>
  /\ log = NoLog

\* a chain starts from the zero accumulator
Init == InitWith(ZeroState)

\* a single call may be handed any accumulator
InitCall == \E s \in Seeds : InitWith(s)

\* a fold call: the caller replaces its accumulator by the result
Fold(o, a, r, lg) ==
  /\ op' = o
  /\ acc' = st
  /\ arg' = a
  /\ ret' = r
  /\ st' = r
  /\ nfolds' = nfolds + 1
  /\ hist' = Append(hist, <<o, a>>)
  /\ log' = lg
  /\ UNCHANGED done

\* a call producing the output hash
Finish(o, a, r, lg) ==
  /\ op' = o
  /\ acc' = st
  /\ arg' = a
  /\ ret' = r
  /\ log' = lg
  /\ done' = TRUE
  /\ UNCHANGED <<st, nfolds, hist>>

FoldInt32(limit, S) ==
  /\ ~done /\ nfolds < limit
  /\ \E i \in S : Fold("fold_int32", i, Ppx_fold_int32(st, i), NoLog)

FoldNativeint(limit, S) ==
  /\ ~done /\ nfolds < limit
  /\ \E i \in S : Fold("fold_nativeint", i, Ppx_fold_nativeint(st, i), NoLog)

FoldInt64(limit, S) ==
  /\ ~done /\ nfolds < limit
  /\ \E i \in S : Fold("fold_int64", i, Ppx_fold_int64(st, i), NoLog)

\* the argument is an OCaml int: the tagged form of a 63-bit integer
FoldInt(limit, S) ==
  /\ ~done /\ nfolds < limit
  /\ \E i \in S : Fold("fold_int", Val_long(i), Ppx_fold_int(st, Val_long(i)), NoLog)

FoldFloat(limit, S) ==
  /\ ~done /\ nfolds < limit
  /\ \E d \in S : Fold("fold_float", d, Ppx_fold_float(st, d), NoLog)

FoldString(limit, S) ==
  /\ ~done /\ nfolds < limit
  /\ \E s \in S :
       Fold("fold_string", s, Ppx_fold_string(st, s),
            LogOf(BlobRun(StateArg(st), Len(s), s, <<>>, FALSE)))

GetHashValue ==
  /\ ~done
  /\ Finish("get_hash_value", <<>>, Ppx_get_hash_value(st), NoLog)

HashString(S) ==
  /\ ~done /\ nfolds = 0
  /\ \E s \in S :
       Finish("hash_string", s, Ppx_hash_string(s),
              LogOf(BlobRun(Zero32, Len(s), s, <<>>, FALSE)))

HashDouble(S) ==
  /\ ~done /\ nfolds = 0
  /\ \E d \in S : Finish("hash_double", d, Ppx_hash_double(d), NoLog)

\* native code calling the exported block mixer directly on the raw 32-bit
\* state (after at most `limit` folds), in the little-endian build and in the
\* ARCH_BIG_ENDIAN build
FoldBlob(limit, S) ==
  /\ ~done /\ nfolds <= limit
  /\ \E s \in S :
       /\ op' = "fold_blob"
       /\ acc' = StateArg(st)
       /\ arg' = s
       /\ ret' = Ppx_fold_blob(StateArg(st), Len(s), s, <<>>)
       /\ log' = LogOf(BlobRun(StateArg(st), Len(s), s, <<>>, FALSE))
       /\ done' = TRUE
       /\ UNCHANGED <<st, nfolds, hist>>

FoldBlobBE(limit, S) ==
  /\ ~done /\ nfolds <= limit
  /\ \E s \in S :
       /\ op' = "fold_blob_be"
       /\ acc' = StateArg(st)
       /\ arg' = s
       /\ ret' = Ppx_fold_blob_BE(StateArg(st), Len(s), s, <<>>)
       /\ log' = LogOf(BlobRun(StateArg(st), Len(s), s, <<>>, TRUE))
       /\ done' = TRUE
       /\ UNCHANGED <<st, nfolds, hist>>

\* a chain of at most MaxFolds folds from the zero accumulator, then finalize
Next ==
  \/ FoldInt32(MaxFolds, ChainInt32)
  \/ FoldNativeint(MaxFolds, ChainInt64)
  \/ FoldInt64(MaxFolds, ChainInt64)
  \/ FoldInt(MaxFolds, ChainInt64)
  \/ FoldFloat(MaxFolds, ChainDouble)
  \/ FoldString(MaxFolds, ChainStrs)
  \/ GetHashValue
  \/ HashString(ChainStrs)
  \/ HashDouble(ChainDouble)
  \/ FoldBlob(MaxFolds, ChainStrs)

Spec == Init /\ [][Next]_vars

\* one call of one primitive on any accumulator and any input
NextCall ==
  \/ FoldInt32(1, Int32Vals)
  \/ FoldNativeint(1, Int64Vals)
  \/ FoldInt64(1, Int64Vals)
  \/ FoldInt(1, Int64Vals)
  \/ FoldFloat(1, DoubleVals)
  \/ FoldString(1, AllStrs)
  \/ GetHashValue
  \/ HashString(AllStrs)
  \/ HashDouble(DoubleVals)
  \/ FoldBlob(0, AllStrs)
  \/ FoldBlobBE(0, AllStrs)

SpecCall == InitCall /\ [][NextCall]_vars

(***************************************************************************)
(* Properties                                                              *)
(***************************************************************************)
FoldOps == {"fold_int32", "fold_nativeint", "fold_int64", "fold_int",
            "fold_float", "fold_string"}
OutputOps == {"get_hash_value", "hash_string", "hash_double"}

\* the OCaml integer carried by a tagged value is in [0, 2^32 - 1]
InRange32(v) == Long_val(v)[3] = 0 /\ Long_val(v)[4] = 0

\* MIX applied to the words of ws in order
RECURSIVE MixAll(_, _)
MixAll(h, ws) ==
  IF h \in U32 /\ ws = <<>> THEN h ELSE MixAll(MIX(h, Head(ws)), Tail(ws))

\* the 4 bytes of an int32_t in little-endian order
LEBytes(i) ==
  <<i % W8, (i \div W8) % W8, (i \div W16) % W8, (i \div (W16 * W8)) % W8>>

\* C1: every output hash (finalize, hash-bytes-direct, hash-double-direct) is
\* an integer in [0, 2^30 - 1]: the upper 2 bits of the 32-bit result are zero.
C1_OutputBounded ==
  op \in OutputOps =>
    LET r == Long_val(ret)
    IN  /\ r[3] = 0 /\ r[4] = 0
        /\ r[2] < 2^14
        /\ r[2] * W16 + r[1] \in 0..(2^30 - 1)

\* finalize ran on an accumulator >= 2^31 whose avalanche has both upper bits
\* set, so the mask is what bounds the output
C1_Witness ==
  /\ op = "get_hash_value"
  /\ InRange32(acc)
  /\ StateArg(acc)[2] >= W15
  /\ FINAL_MIX(StateArg(acc))[2] >= \Hc000

\* C2: the single-call wrappers are finalize after fold from the zero
\* accumulator: hash-bytes-direct(b) = finalize(fold-bytes(0, b)) and
\* hash-double-direct(d) = finalize(fold-double(0, d)).
C2_WrappersCompose ==
  /\ op = "hash_string" =>
       ret = Ppx_get_hash_value(Ppx_fold_string(ZeroState, arg))
  /\ op = "hash_double" =>
       ret = Ppx_get_hash_value(Ppx_fold_float(ZeroState, arg))

\* hash-bytes-direct ran on a buffer with a block and a tail whose fold from 0
\* is an accumulator >= 2^31 (read back by finalize as a negative int)
C2_Witness ==
  /\ op = "hash_string"
  /\ Len(arg) = 5
  /\ Int_val(Ppx_fold_string(ZeroState, arg)) < 0

\* C3 as stated: fold-int32(h, v) is one MIX step on the bit pattern of v and
\* equals the block/byte mixer on h and the 4 little-endian bytes of v.
C3_Original ==
  op = "fold_int32" =>
    /\ StateArg(ret) = MIX(StateArg(acc), IntToU32(arg))
    /\ StateArg(ret) = Ppx_fold_blob(StateArg(acc), 4, LEBytes(arg), <<>>)

\* C3 (amended): fold-int32(h, v) is one MIX step on the bit pattern of v;
\* the block/byte mixer on the 4 little-endian bytes of v performs the same
\* single step and then xors the length 4 into the state, so
\* Ppx_fold_blob(h, 4, bytes(v)) = fold-int32(h, v) xor 4.
C3_Int32IsOneBlockStep ==
  op = "fold_int32" =>
    /\ InRange32(ret)
    /\ StateArg(ret) = MIX(StateArg(acc), IntToU32(arg))
    /\ Ppx_fold_blob(StateArg(acc), 4, LEBytes(arg), <<>>)
         = Xor32(StateArg(ret), <<4, 0>>)

\* fold-int32 ran on a negative value (top bit of the pattern set) from a
\* non-zero accumulator
C3_Witness ==
  /\ op = "fold_int32"
  /\ arg = IntMin
  /\ StateArg(acc) = <<\Hbeef, \Hdead>>

\* both 32-bit words of a 64-bit word, low word first then high word
TwoWords(d) == << <<d[1], d[2]>>, <<d[3], d[4]>> >>

\* the tagged accumulator holding the uint32_t h
StateOf(h) == Val_long(ZExt64(h))

PadByte(s, i) == IF i < Len(s) THEN s[i + 1] ELSE 0
PadWord(s, j) ==
  <<PadByte(s, 4 * j) + W8 * PadByte(s, 4 * j + 1),
    PadByte(s, 4 * j + 2) + W8 * PadByte(s, 4 * j + 3)>>
PadWords(s) == [j \in 1..((Len(s) + 3) \div 4) |-> PadWord(s, j - 1)]

BlobOps == {"fold_blob", "fold_blob_be"}

\* C5: Ppx_fold_blob mixes once per complete 4-byte little-endian block in
\* order, then once more iff len mod 4 is 1, 2 or 3 with the trailing bytes
\* as a little-endian word padded with zeros; floor(len/4) + (len mod 4 # 0)
\* mixing steps in all; every byte is read exactly once and none at an
\* index >= len.
C5_BlockAndTail ==
  op \in BlobOps =>
    LET len == Len(arg)
    IN  /\ log.mixes = len \div 4 + (IF len % 4 # 0 THEN 1 ELSE 0)
        /\ log.words = PadWords(arg)
        /\ Len(log.reads) = len
        /\ \A k \in 1..Len(log.reads) : log.reads[k] \in 0..(len - 1)
        /\ \A i \in 0..(len - 1) : \E k \in 1..Len(log.reads) : log.reads[k] = i
        /\ ret = Xor32(MixAll(acc, PadWords(arg)), NatToU32(len))

\* the block mixer ran on 7 bytes: one complete block, then a 3-byte tail
\* whose top byte is >= 0x80
C5_Witness ==
  /\ op = "fold_blob"
  /\ Len(arg) = 7
  /\ arg[7] >= 128
  /\ log.mixes = 2

\* the words each fold kind other than bytes mixes
KindWords(o, a) ==
  CASE o = "fold_int32" -> <<IntToU32(a)>>
    [] o = "fold_nativeint" -> TwoWords(a)
    [] o = "fold_int" -> TwoWords(Long_val(a))
    [] o = "fold_int64" -> TwoWords(a)
    [] o = "fold_float" -> TwoWords(a)

\* C6: a byte-sequence fold xors the length into the state exactly once,
\* after all block and tail steps and not through a mixing step; fold-bytes
\* returns exactly the block mixer's value; no other fold kind xors a length.
C6_LengthXorOnce ==
  /\ op = "fold_string" =>
       /\ ret = StateOf(Ppx_fold_blob(StateArg(acc), Len(arg), arg, <<>>))
       /\ log.lenXors = 1
       /\ StateArg(ret) = Xor32(MixAll(StateArg(acc), log.words),
                                NatToU32(Len(arg)))
  /\ op \in FoldOps \ {"fold_string"} =>
       StateArg(ret) = MixAll(StateArg(acc), KindWords(op, arg))

\* fold-bytes ran on a 5-byte sequence from a non-zero accumulator
C6_Witness ==
  /\ op = "fold_string"
  /\ Len(arg) = 5
  /\ StateArg(acc) = <<\Hffff, \Hffff>>

\* C7: the ARCH_BIG_ENDIAN build of Ppx_fold_blob (bytes reassembled with
\* shifts) returns what the little-endian build (native word read) returns.
C7_EndianIndependent ==
  op = "fold_blob_be" =>
    /\ ret = Ppx_fold_blob(acc, Len(arg), arg, <<>>)
    /\ log.words = BlobRun(acc, Len(arg), arg, <<>>, FALSE).words

\* the big-endian build ran on a block whose top byte is >= 0x80, followed
\* by a tail
C7_Witness ==
  /\ op = "fold_blob_be"
  /\ Len(arg) > 4 /\ Len(arg) % 4 # 0
  /\ arg[4] >= 128

\* the fold primitive named o applied to accumulator s and argument a
ApplyFold(o, s, a) ==
  CASE o = "fold_int32" -> Ppx_fold_int32(s, a)
    [] o = "fold_nativeint" -> Ppx_fold_nativeint(s, a)
    [] o = "fold_int64" -> Ppx_fold_int64(s, a)
    [] o = "fold_int" -> Ppx_fold_int(s, a)
    [] o = "fold_float" -> Ppx_fold_float(s, a)
    [] o = "fold_string" -> Ppx_fold_string(s, a)

\* the accumulator after folding the <<op, arg>> pairs of h in order from s
RECURSIVE Replay(_, _)
Replay(s, h) ==
  IF s \in Word64 /\ h = <<>> THEN s
  ELSE Replay(ApplyFold(Head(h)[1], s, Head(h)[2]), Tail(h))

\* fold 32-bit integers a then b from accumulator s, and finalize
HashOfPair(s, a, b) ==
  Ppx_get_hash_value(Ppx_fold_int32(Ppx_fold_int32(s, a), b))

\* C8: folding is order-sensitive: there are values a # b for which folding
\* [a, b] from the zero accumulator and finalizing differs from folding
\* [b, a] and finalizing.
C8_OrderSensitive ==
  op = "init" =>
    \E a, b \in ChainInt32 :
      a # b /\ HashOfPair(st, a, b) # HashOfPair(st, b, a)

\* a chain folded 1 then 42 and was finalized to an output that is not the
\* output of folding 42 then 1
C8_Witness ==
  /\ op = "get_hash_value"
  /\ hist = << <<"fold_int32", 1>>, <<"fold_int32", 42>> >>
  /\ ret # HashOfPair(ZeroState, 42, 1)

\* h without its folds of the empty byte sequence
IsEmptyFold(e) == e[1] = "fold_string" /\ Len(e[2]) = 0
StripEmpty(h) == SelectSeq(h, LAMBDA e : ~IsEmptyFold(e))

\* C9: folding a zero-length byte sequence returns the state unchanged (no
\* mixing step, length xor with 0), in Ppx_fold_blob and in Ppx_fold_string,
\* so a chain finalizes to the output of the same chain without its
\* empty-sequence folds.
C9_EmptyIsNoOp ==
  /\ (op \in {"fold_string", "fold_blob"} /\ Len(arg) = 0) =>
       ret = acc /\ log.mixes = 0 /\ log.reads = <<>>
  /\ op = "get_hash_value" =>
       ret = Ppx_get_hash_value(Replay(ZeroState, StripEmpty(hist)))

\* a chain folded the empty byte sequence and then another value from an
\* accumulator, and was finalized
C9_Witness ==
  /\ op = "get_hash_value"
  /\ Len(hist) = 2
  /\ IsEmptyFold(hist[1])
  /\ hist[2][1] = "fold_int64"

\* the 32-bit result the runtime mixer computes for fold o, from the low 32
\* bits of the OCaml integer in s
RawFold(o, s, a) ==
  LET h == Trunc32(Long_val(s))
  IN  CASE o = "fold_int32" -> caml_hash_mix_uint32(h, IntToU32(a))
        [] o = "fold_nativeint" -> caml_hash_mix_intnat(h, a)
        [] o = "fold_int64" -> caml_hash_mix_int64(h, a)
        [] o = "fold_int" -> caml_hash_mix_intnat(h, Long_val(a))
        [] o = "fold_float" -> caml_hash_mix_double(h, a)
        [] o = "fold_string" -> caml_hash_mix_string(h, a)

\* the same low 32 bits under different upper bits of the OCaml integer
WithUpperBits(s) ==
  LET x == Long_val(s) IN Val_long(<<x[1], x[2], \H1234, \H4000>>)

\* C10: in a chain from the zero accumulator the state carried between calls
\* is an integer in [0, 2^32 - 1] holding the fold's 32-bit result without
\* loss; each fold depends only on the low 32 bits of the incoming state; and
\* finalize, reading the state through Int_val, works on exactly the 32-bit
\* pattern the last fold produced, also when it is >= 2^31.
C10_AccumulatorInvariant ==
  /\ InRange32(st)
  /\ st = Val_long(Long_val(st))
  /\ op \in FoldOps =>
       /\ Trunc32(Long_val(ret)) = RawFold(op, acc, arg)
       /\ IntToU32(Int_val(ret)) = RawFold(op, acc, arg)
       /\ ret = ApplyFold(op, WithUpperBits(acc), arg)
  /\ op = "get_hash_value" =>
       /\ IntToU32(Int_val(acc)) = Trunc32(Long_val(acc))
       /\ ret = Val_int(And32(FINAL_MIX(Trunc32(Long_val(acc))), Mask30))

\* finalize ran after two folds on an accumulator >= 2^31
C10_Witness ==
  /\ op = "get_hash_value"
  /\ nfolds = 2
  /\ Long_val(acc)[2] >= W15

=============================================================================
